---- MODULE Spec2Model ----
(***************************************************************************)
(* Model of the dynamic-library tutorial (Tutorial 14):                    *)
(*   sharedlib.c       - the Module: exported functions, the exported      *)
(*                       counter, the load/unload hooks;                   *)
(*   tutorial14_main.c - the Host: dlopen, dlsym, calls, dlclose.          *)
(*                                                                         *)
(* These specifications share the module's operators:                      *)
(*   ProcSpec   - lib_process_data applied to inputs drawn from bounded    *)
(*                sets, and applied again to its own result                *)
(*   WideSpec   - the statuses of lib_process_data for lengths and         *)
(*                capacities over the range of size_t                      *)
(*   Spec       - a loaded module driven by any sequence of calls          *)
(*   HostSpec   - one run of main() of tutorial14_main.c                   *)
(*   ThreadSpec - two threads calling lib_increment_counter                *)
(*                                                                         *)
(* The assembly routines of the other tutorials run on a small x86-64      *)
(* machine (registers, flags, stack), one specification each:              *)
(*   MulAddSpec - multiply_add_asm of tutorial10_complete.cpp              *)
(*   FibSpec    - fibonacci_asm of tutorial4_complete.c                    *)
(*   SearchSpec - array_search_asm of tutorial7_complete.c                 *)
(*   MemcmpSpec - memcmp_asm of tutorial6_complete.c                       *)
(***************************************************************************)
EXTENDS Integers, Sequences, FiniteSets, TLC

(***************************************************************************)
(* Bounds of the model.                                                    *)
(***************************************************************************)
\* longest input string (bytes before the terminator)
MaxLen == 3
\* largest output_size passed to lib_process_data
MaxCap == 4
\* most lib_increment_counter calls per load in Spec
MaxIncr == 3
\* most lib_increment_counter calls per thread in ThreadSpec
MaxThreadCalls == 3
\* largest argument of fibonacci_asm
MaxFibN == 6
\* elements in the array given to array_search_asm
MaxArr == 3
\* bytes in each buffer given to memcmp_asm
MaxNum == 2

(***************************************************************************)
(* C values.                                                               *)
(***************************************************************************)
\* the null pointer: a pointer to no memory (every real buffer holds a byte)
NULL == << >>

\* An int is held as its two's complement value in -2^31 .. 2^31-1. The
\* x86-64 build (add/imul/inc on 32-bit registers, no -ftrapv) keeps the low
\* 32 bits of every result; the arithmetic below does the same on two 16-bit
\* halves, so that no intermediate value leaves the range of the checker.
Half == 2^16
Lo16(x) == x % Half
Hi16(x) == (x \div Half) % Half
FromHalves(hi, lo) ==
    IF hi >= Half \div 2 THEN (hi - Half) * Half + lo ELSE hi * Half + lo

INT_MAX == FromHalves(Half \div 2 - 1, Half - 1)
INT_MIN == FromHalves(Half \div 2, 0)

\* a + b on 32-bit registers
Add32(a, b) ==
    LET lo == Lo16(a) + Lo16(b)
        hi == Hi16(a) + Hi16(b) + (lo \div Half)
    IN FromHalves(hi % Half, lo % Half)

\* the low 16 bits and the next 16 bits of x * y, for x, y in 0 .. 2^16-1:
\* y is taken a byte at a time
MulHalves(x, y) ==
    LET p0 == x * (y % 256)
        p1 == x * (y \div 256)
        s0 == p0 + (p1 % 256) * 256
    IN [lo |-> s0 % Half, hi |-> ((s0 \div Half) + (p1 \div 256)) % Half]

\* a * b on 32-bit registers (imul): the low 32 bits of the product
Mul32(a, b) ==
    LET ll == MulHalves(Lo16(a), Lo16(b))
        lh == MulHalves(Lo16(a), Hi16(b))
        hl == MulHalves(Hi16(a), Lo16(b))
    IN FromHalves((ll.hi + lh.lo + hl.lo) % Half, ll.lo)

\* size_t to int: the low 32 bits, read as signed
SizeToInt(n) == FromHalves(Hi16(n), Lo16(n))

\* A size_t is 64 bits wide, more than the checker's integers hold: where a
\* length or a capacity ranges over size_t it is held as [hi, lo], standing
\* for hi * 2^16 + lo with lo in 0 .. 2^16-1.
SizeOf(hi, lo) == [hi |-> hi, lo |-> lo]

\* a >= b on size_t
SizeGE(a, b) == a.hi > b.hi \/ (a.hi = b.hi /\ a.lo >= b.lo)

\* size_t to int, as SizeToInt: the low 32 bits, read as signed
WideToInt(n) == FromHalves(n.hi % Half, n.lo)

\* lengths and capacities at the edges of int and of 32 bits: 0, 1, 2^31-1,
\* 2^31, 2^31+1, 2^32-2, 2^32-1, 2^32, 2^32+1
WideSizes ==
    { SizeOf(0, 0), SizeOf(0, 1),
      SizeOf(Half \div 2 - 1, Half - 1), SizeOf(Half \div 2, 0),
      SizeOf(Half \div 2, 1),
      SizeOf(Half - 1, Half - 2), SizeOf(Half - 1, Half - 1),
      SizeOf(Half, 0), SizeOf(Half, 1) }

\* bytes the input strings are made of: '`' 'a' 'z' '{' (both edges of the
\* lowercase range), 'A' and a byte above 127
Alphabet == {96, 97, 122, 123, 65, 200}

Max(a, b) == IF a >= b THEN a ELSE b

\* all byte sequences of length <= n over Alphabet
BytesUpTo(n) == UNION { [1..k -> Alphabet] : k \in 0..n }

\* NUL-terminated strings as they lie in memory
CStrings == { Append(s, 0) : s \in BytesUpTo(MaxLen) }

\* memory starting at the output pointer: the buffer and what follows it;
\* cell i of C is element i+1 here
MemSize == Max(MaxLen + 1, MaxCap)
Poison(i) == 230 + i
FreshMemory == [k \in 1..MemSize |-> Poison(k - 1)]

(***************************************************************************)
(* sharedlib.c                                                             *)
(***************************************************************************)
\* <string.h> strlen as called at line 28: index of the first NUL
RECURSIVE strlenFrom(_, _)
strlenFrom(s, i) == IF s[i + 1] = 0 THEN i ELSE strlenFrom(s, i + 1)
strlen(s) == strlenFrom(s, 0)

\* the argument check without its output_size == 0 test
InvalidArgument_NoSizeTest(input, output, output_size) ==
    input = NULL \/ output = NULL

\* line 24
InvalidArgument(input, output, output_size) ==
    input = NULL \/ output = NULL \/ output_size = 0

\* the length check admitting len == output_size
BufferTooSmall_Admits_Equal(len, output_size) == len > output_size

\* line 29
BufferTooSmall(len, output_size) == len >= output_size

\* the case test with 'z' left out of the range
ToUpper_Without_z(c) == IF c >= 97 /\ c < 122 THEN c - 97 + 65 ELSE c

\* lines 36-38
ToUpper(c) == IF c >= 97 /\ c <= 122 THEN c - 97 + 65 ELSE c

\* line 35: the input index read in iteration i
SrcIndex(len, i) == len - 1 - i

\* the terminator stored over the last byte of the result
TermIndex_Before(len) == Max(len - 1, 0)

\* line 41: the index of the terminator
TermIndex(len) == len

\* lines 34-40: the loop from iteration i on; st = [out, written]
RECURSIVE ReverseLoop(_, _, _, _)
ReverseLoop(i, len, input, st) ==
    IF i < len
    THEN LET c == ToUpper(input[SrcIndex(len, i) + 1])
         IN ReverseLoop(i + 1, len, input,
                [out     |-> [st.out EXCEPT ![i + 1] = c],
                 written |-> st.written \cup {i}])
    ELSE st

\* the length check storing a truncated result before it fails
lib_process_data_Truncates(input, output, output_size) ==
    IF InvalidArgument(input, output, output_size)
    THEN [ret |-> -1, out |-> output, written |-> {}, reads |-> {}]
    ELSE LET len == strlen(input)
         IN IF BufferTooSmall(len, output_size)
            THEN LET kept == output_size - 1
                     st == ReverseLoop(0, kept, input,
                                       [out |-> output, written |-> {}])
                 IN [ret     |-> -2,
                     out     |-> [st.out EXCEPT ![TermIndex(kept) + 1] = 0],
                     written |-> st.written \cup {TermIndex(kept)},
                     reads   |-> 0..len]
            ELSE LET st == ReverseLoop(0, len, input,
                                       [out |-> output, written |-> {}])
                 IN [ret     |-> SizeToInt(len),
                     out     |-> [st.out EXCEPT ![TermIndex(len) + 1] = 0],
                     written |-> st.written \cup {TermIndex(len)},
                     reads   |-> 0..len]

\* lines 23-44; the result carries what the call did: the returned int, the
\* memory at output afterwards, the output indices stored to and the input
\* indices loaded from
lib_process_data(input, output, output_size) ==
    IF InvalidArgument(input, output, output_size)
    THEN [ret |-> -1, out |-> output, written |-> {}, reads |-> {}]
    ELSE LET len == strlen(input)
         IN IF BufferTooSmall(len, output_size)
            THEN [ret |-> -2, out |-> output, written |-> {}, reads |-> 0..len]
            ELSE LET st == ReverseLoop(0, len, input,
                                       [out |-> output, written |-> {}])
                 IN [ret     |-> SizeToInt(len),
                     out     |-> [st.out EXCEPT ![TermIndex(len) + 1] = 0],
                     written |-> st.written \cup {TermIndex(len)},
                     reads   |-> 0..len]

\* lines 23-44 with the bytes left out: the int returned and the line of
\* the return statement taken, from which pointers are null, strlen(input)
\* and output_size
lib_process_data_status(nulls, len, output_size) ==
    IF nulls.input \/ nulls.output \/ output_size = SizeOf(0, 0)
    THEN [ret |-> -1, line |-> 25]
    ELSE IF SizeGE(len, output_size)
         THEN [ret |-> -2, line |-> 30]
         ELSE [ret |-> WideToInt(len), line |-> 43]

\* a null function pointer
NULL_FN == "NULL"

\* callbacks a caller passes as callback_func (line 47): my_callback of
\* tutorial14_main.c and two more pure functions of the same type
Callbacks == {"my_callback", "identity", "successor"}

\* the value a callback returns; my_callback is tutorial14_main.c lines 14-17
CallbackResult(cb, value) ==
    CASE cb = "my_callback" -> Mul32(value, 2)
      [] cb = "identity"    -> value
      [] cb = "successor"   -> Add32(value, 1)

\* the helper with its last term dropped
internal_calculate_Drops_b(a, b) == Add32(Mul32(a, b), a)

\* lines 10-12
internal_calculate(a, b) == Add32(Mul32(a, b), Add32(a, b))

\* the null test handing back the helper's value instead of failing
lib_execute_callback_Null_Skips(cb, value) ==
    LET internal_result == internal_calculate(value, 10)
    IN IF cb = NULL_FN
       THEN [ret |-> internal_result, calls |-> << >>]
       ELSE LET r == CallbackResult(cb, internal_result)
            IN [ret |-> r, calls |-> << [arg |-> internal_result, res |-> r] >>]

\* lines 50-57; calls lists the invocations of cb the call made, each with
\* the argument passed and the value cb returned
lib_execute_callback(cb, value) ==
    IF cb = NULL_FN
    THEN [ret |-> -1, calls |-> << >>]
    ELSE LET internal_result == internal_calculate(value, 10)
             r == CallbackResult(cb, internal_result)
         IN [ret |-> r, calls |-> << [arg |-> internal_result, res |-> r] >>]

\* lines 16-19: the status returned (the printf is not modelled)
lib_initialize == 0

\* the increment stopping at the largest int
lib_increment_counter_Saturates(counter) ==
    IF counter = INT_MAX THEN counter ELSE counter + 1

\* the increment adding two
lib_increment_counter_By_Two(counter) == Add32(counter, 2)

\* lines 76-78: the counter after the call
lib_increment_counter(counter) == Add32(counter, 1)

\* line 72: the counter of a freshly loaded module
InitialCounter == 0

(***************************************************************************)
(* State.                                                                  *)
(***************************************************************************)
VARIABLES
    ppc,      \* ProcSpec: "call" before lib_process_data runs, "done" after
    pin,      \* ProcSpec: the input argument (NULL or a C string)
    pout,     \* ProcSpec: the memory at the output argument (NULL or bytes)
    psize,    \* ProcSpec: the output_size argument
    pres,     \* ProcSpec: what the call did
    pres2,    \* ProcSpec: what a second call did, given the first result
    wpc,      \* WideSpec: "call" before lib_process_data runs, "done" after
    wnull,    \* WideSpec: which of input and output are null pointers
    wlen,     \* WideSpec: strlen(input), a size_t
    wsize,    \* WideSpec: the output_size argument, a size_t
    wres,     \* WideSpec: the returned int and the return statement taken
    modstate, \* the module: "unloaded", "constructing" or "resident"
    lib_global_counter,  \* sharedlib.c line 72
    nIncr,    \* Spec: lib_increment_counter calls since the load
    extWrite, \* Spec: the counter was written through its handle since the load
    last,     \* Spec: the last operation, its arguments and what it did
    hpc,      \* HostSpec: the statement of main() to run next
    exports,  \* HostSpec: the export table of the object dlopen mapped
    handle,   \* HostSpec: main's handle
    ptrs,     \* HostSpec: main's lib_init, lib_process, lib_callback,
              \*           lib_increment and counter_ptr
    ret,      \* HostSpec: main's ret
    output,   \* HostSpec: main's char output[256]
    printed,  \* HostSpec: the string line 56 printed
    received, \* HostSpec: the values my_callback was called with (line 15)
    reads,    \* HostSpec: the values read through counter_ptr, in order
    stderr,   \* HostSpec: the diagnostics written to stderr, in order
    log,      \* HostSpec: the loader, module and host events, in order
    returned, \* HostSpec: << >> while main runs, then <<its return value>>
    tpc,      \* ThreadSpec: per thread, "idle" or "loaded" (between the
              \*             load and the store of lib_global_counter++)
    treg,     \* ThreadSpec: per thread, the register holding the loaded value
    tcalls,   \* ThreadSpec: per thread, lib_increment_counter calls completed
    ip,       \* the assembly routines: the instruction to run next
    regs,     \* the assembly routines: the general registers
    flags,    \* the assembly routines: ZF, CF, SF and OF of RFLAGS
    stack,    \* the assembly routines: the quadwords pushed since the call
    mem,      \* the assembly routines: the arrays the pointer arguments
              \*                         refer to
    args,     \* the assembly routines: the arguments of the call
    frames,   \* fibonacci_asm: per activation not yet returned, the
              \*                registers it was entered with
    loads,    \* the assembly routines: the array indices loaded from
    result    \* the assembly routines: << >>, then <<the value returned>>

vars == <<ppc, pin, pout, psize, pres, pres2, wpc, wnull, wlen, wsize, wres,
          modstate, lib_global_counter, nIncr, extWrite, last,
          hpc, exports, handle, ptrs, ret, output, printed, received, reads,
          stderr, log, returned, tpc, treg, tcalls,
          ip, regs, flags, stack, mem, args, frames, loads, result>>

asmVars == <<ip, regs, flags, stack, mem, args, frames, loads, result>>

hostVars == <<hpc, exports, handle, ptrs, ret, output, printed, received, reads,
              stderr, log, returned>>

threadVars == <<tpc, treg, tcalls>>

wideVars == <<wpc, wnull, wlen, wsize, wres>>

\* the variables of the callers of lib_process_data alone
procVars == <<ppc, pin, pout, psize, pres, pres2, wideVars>>
specVars == <<modstate, lib_global_counter, nIncr, extWrite, last>>

NoResult == [ret |-> 0, out |-> NULL, written |-> {}, reads |-> {}]

\* the module before any load, and the caller before any call
NotLoaded ==
    /\ modstate = "unloaded"
    /\ lib_global_counter = InitialCounter
    /\ nIncr = 0
    /\ extWrite = FALSE
    /\ last = [op |-> "none", args |-> << >>, res |-> [ret |-> 0]]

\* main of tutorial14_main.c: sizeof(output), line 53
OutputSize == 256

\* an element of an array no statement has stored to yet
Indeterminate == -1

\* the names main passes to dlsym (lines 30-36), by the variable that
\* receives the address
SymbolOf ==
    [lib_init      |-> "lib_initialize",
     lib_process   |-> "lib_process_data",
     lib_callback  |-> "lib_execute_callback",
     lib_increment |-> "lib_increment_counter",
     counter_ptr   |-> "lib_global_counter"]

Symbols == { SymbolOf[v] : v \in DOMAIN SymbolOf }

\* main's locals before line 21
HostLocals ==
    /\ exports = {}
    /\ handle = "NULL"
    /\ ptrs = [v \in DOMAIN SymbolOf |-> "NULL"]
    /\ ret = 0
    /\ output = [k \in 1..OutputSize |-> Indeterminate]
    /\ printed = << >>
    /\ received = << >>
    /\ reads = << >>
    /\ stderr = << >>
    /\ log = << >>
    /\ returned = << >>

HostIdle ==
    /\ hpc = "idle"
    /\ HostLocals

\* the threads of ThreadSpec
Threads == {1, 2}

ThreadsIdle ==
    /\ tpc = [t \in Threads |-> "idle"]
    /\ treg = [t \in Threads |-> 0]
    /\ tcalls = [t \in Threads |-> 0]

NoStatus == [ret |-> 0, line |-> 0]

\* no call of ProcSpec under way
ProcCallerIdle ==
    /\ ppc = "idle"
    /\ pin = NULL
    /\ pout = NULL
    /\ psize = 0
    /\ pres = NoResult
    /\ pres2 = NoResult

\* no call of WideSpec under way
WideIdle ==
    /\ wpc = "idle"
    /\ wnull = [input |-> TRUE, output |-> TRUE]
    /\ wlen = SizeOf(0, 0)
    /\ wsize = SizeOf(0, 0)
    /\ wres = NoStatus

ProcIdle ==
    /\ ProcCallerIdle
    /\ WideIdle

\* no assembly routine under way
AsmIdle ==
    /\ ip = "idle"
    /\ regs = << >>
    /\ flags = << >>
    /\ stack = << >>
    /\ mem = << >>
    /\ args = << >>
    /\ frames = << >>
    /\ loads = {}
    /\ result = << >>

(***************************************************************************)
(* ProcSpec: lib_process_data on every input within the bounds.            *)
(***************************************************************************)
ProcInit ==
    /\ ppc = "call"
    /\ pin \in CStrings \cup {NULL}
    /\ pout \in {FreshMemory, NULL}
    /\ psize \in 0..MaxCap
    /\ pres = NoResult
    /\ pres2 = NoResult
    /\ WideIdle
    /\ NotLoaded
    /\ HostIdle
    /\ ThreadsIdle
    /\ AsmIdle

ProcCall ==
    /\ ppc = "call"
    /\ pres' = lib_process_data(pin, pout, psize)
    /\ ppc' = "done"
    /\ UNCHANGED <<pin, pout, psize, pres2>>
    /\ UNCHANGED wideVars
    /\ UNCHANGED asmVars
    /\ UNCHANGED specVars
    /\ UNCHANGED hostVars
    /\ UNCHANGED threadVars

\* after a success, the caller passes the result as the input of a second
\* call, with a separate output buffer of the same capacity
ProcCallAgain ==
    /\ ppc = "done"
    /\ pres.ret >= 0
    /\ pres2' = lib_process_data(pres.out, FreshMemory, psize)
    /\ ppc' = "twice"
    /\ UNCHANGED <<pin, pout, psize, pres>>
    /\ UNCHANGED wideVars
    /\ UNCHANGED asmVars
    /\ UNCHANGED specVars
    /\ UNCHANGED hostVars
    /\ UNCHANGED threadVars

ProcNext ==
    \/ ProcCall
    \/ ProcCallAgain

ProcSpec == ProcInit /\ [][ProcNext]_vars

(***************************************************************************)
(* WideSpec: the status lib_process_data returns, for lengths and          *)
(* capacities over the range of size_t (the build is x86-64: size_t has 64 *)
(* bits, int has 32).                                                      *)
(***************************************************************************)
WideInit ==
    /\ wpc = "call"
    /\ wnull \in [input : BOOLEAN, output : BOOLEAN]
    /\ wlen \in WideSizes
    /\ wsize \in WideSizes
    /\ wres = NoStatus
    /\ ProcCallerIdle
    /\ NotLoaded
    /\ HostIdle
    /\ ThreadsIdle
    /\ AsmIdle

WideCall ==
    /\ wpc = "call"
    /\ wres' = lib_process_data_status(wnull, wlen, wsize)
    /\ wpc' = "done"
    /\ UNCHANGED <<wnull, wlen, wsize>>
    /\ UNCHANGED <<ppc, pin, pout, psize, pres, pres2>>
    /\ UNCHANGED asmVars
    /\ UNCHANGED specVars
    /\ UNCHANGED hostVars
    /\ UNCHANGED threadVars

WideNext == WideCall

WideSpec == WideInit /\ [][WideNext]_vars

(***************************************************************************)
(* Spec: a caller that loads the module, calls its exports in any order    *)
(* with arguments from small sets, writes the counter through its handle,  *)
(* and unloads.                                                            *)
(***************************************************************************)
\* arguments of lib_execute_callback: small values, both ends of int, and
\* the least positive value whose transform leaves the int range
CallbackValues == {0, 7, -1, INT_MAX, INT_MIN, 195225786}

\* arguments of lib_process_data in Spec
SpecInputs == {NULL, <<0>>, <<97, 0>>, <<65, 122, 0>>}

\* values stored through the counter's handle
WrittenValues == {5, -1, INT_MAX - 1}

Init ==
    /\ NotLoaded
    /\ ProcIdle
    /\ HostIdle
    /\ ThreadsIdle
    /\ AsmIdle

\* dlopen maps the module and initialises its .data (line 72); the
\* constructor has yet to run
Load ==
    /\ modstate = "unloaded"
    /\ modstate' = "constructing"
    /\ lib_global_counter' = InitialCounter
    /\ nIncr' = 0
    /\ extWrite' = FALSE
    /\ last' = [op |-> "load", args |-> << >>, res |-> [ret |-> 0]]
    /\ UNCHANGED procVars
    /\ UNCHANGED asmVars
    /\ UNCHANGED threadVars
    /\ UNCHANGED hostVars

\* the load hook (lines 60-63): a printf; after it the exports can be called
Constructor ==
    /\ modstate = "constructing"
    /\ modstate' = "resident"
    /\ last' = [op |-> "lib_constructor", args |-> << >>, res |-> [ret |-> 0]]
    /\ UNCHANGED <<lib_global_counter, nIncr, extWrite>>
    /\ UNCHANGED procVars
    /\ UNCHANGED asmVars
    /\ UNCHANGED threadVars
    /\ UNCHANGED hostVars

\* dlclose: the unload hook (lines 65-68, a printf) runs and the module is
\* unmapped
Unload ==
    /\ modstate = "resident"
    /\ modstate' = "unloaded"
    /\ last' = [op |-> "lib_destructor", args |-> << >>, res |-> [ret |-> 0]]
    /\ UNCHANGED <<lib_global_counter, nIncr, extWrite>>
    /\ UNCHANGED procVars
    /\ UNCHANGED asmVars
    /\ UNCHANGED threadVars
    /\ UNCHANGED hostVars

\* lib_initialize handing back the counter as its status
Initialize_Returns_Counter ==
    /\ modstate = "resident"
    /\ last' = [op |-> "lib_initialize", args |-> << >>,
                res |-> [ret |-> lib_global_counter]]
    /\ UNCHANGED <<modstate, lib_global_counter, nIncr, extWrite>>
    /\ UNCHANGED procVars
    /\ UNCHANGED asmVars
    /\ UNCHANGED threadVars
    /\ UNCHANGED hostVars

\* lib_initialize resetting the counter
Initialize_Resets_Counter ==
    /\ modstate = "resident"
    /\ last' = [op |-> "lib_initialize", args |-> << >>,
                res |-> [ret |-> lib_initialize]]
    /\ lib_global_counter' = InitialCounter
    /\ UNCHANGED <<modstate, nIncr, extWrite>>
    /\ UNCHANGED procVars
    /\ UNCHANGED asmVars
    /\ UNCHANGED threadVars
    /\ UNCHANGED hostVars

\* a call of lib_initialize (lines 16-19)
Initialize ==
    /\ modstate = "resident"
    /\ last' = [op |-> "lib_initialize", args |-> << >>,
                res |-> [ret |-> lib_initialize]]
    /\ UNCHANGED <<modstate, lib_global_counter, nIncr, extWrite>>
    /\ UNCHANGED procVars
    /\ UNCHANGED asmVars
    /\ UNCHANGED threadVars
    /\ UNCHANGED hostVars

\* a call of lib_process_data (lines 23-44)
ProcessData ==
    /\ modstate = "resident"
    /\ \E input \in SpecInputs, buffer \in {FreshMemory, NULL},
          output_size \in 0..MaxCap :
          last' = [op |-> "lib_process_data",
                   args |-> <<input, buffer, output_size>>,
                   res |-> lib_process_data(input, buffer, output_size)]
    /\ UNCHANGED <<modstate, lib_global_counter, nIncr, extWrite>>
    /\ UNCHANGED procVars
    /\ UNCHANGED asmVars
    /\ UNCHANGED threadVars
    /\ UNCHANGED hostVars

\* a call of lib_execute_callback (lines 50-57) with a callback that does
\* not touch the module
ExecuteCallback ==
    /\ modstate = "resident"
    /\ \E cb \in Callbacks \cup {NULL_FN}, value \in CallbackValues :
          last' = [op |-> "lib_execute_callback",
                   args |-> <<cb, value>>,
                   res |-> lib_execute_callback(cb, value)]
    /\ UNCHANGED <<modstate, lib_global_counter, nIncr, extWrite>>
    /\ UNCHANGED procVars
    /\ UNCHANGED asmVars
    /\ UNCHANGED threadVars
    /\ UNCHANGED hostVars

\* a call of lib_increment_counter (lines 76-78)
IncrementCounter ==
    /\ modstate = "resident"
    /\ nIncr < MaxIncr
    /\ lib_global_counter' = lib_increment_counter(lib_global_counter)
    /\ nIncr' = nIncr + 1
    /\ last' = [op |-> "lib_increment_counter", args |-> << >>,
                res |-> [ret |-> 0]]
    /\ UNCHANGED <<modstate, extWrite>>
    /\ UNCHANGED procVars
    /\ UNCHANGED asmVars
    /\ UNCHANGED threadVars
    /\ UNCHANGED hostVars

\* the store going to a copy of the int in the caller's own image
ExternalWrite_To_Copy ==
    /\ modstate = "resident"
    /\ \E v \in WrittenValues :
          last' = [op |-> "write", args |-> <<v>>, res |-> [ret |-> 0]]
    /\ extWrite' = TRUE
    /\ UNCHANGED <<modstate, lib_global_counter, nIncr>>
    /\ UNCHANGED procVars
    /\ UNCHANGED asmVars
    /\ UNCHANGED threadVars
    /\ UNCHANGED hostVars

\* the caller loads the exported int through the address dlsym gave it, as
\* tutorial14_main.c does at lines 63 and 65
ExternalRead ==
    /\ modstate = "resident"
    /\ last' = [op |-> "read", args |-> << >>,
                res |-> [ret |-> lib_global_counter]]
    /\ UNCHANGED <<modstate, lib_global_counter, nIncr, extWrite>>
    /\ UNCHANGED procVars
    /\ UNCHANGED asmVars
    /\ UNCHANGED threadVars
    /\ UNCHANGED hostVars

\* the caller stores to the exported int through the address dlsym gave it
ExternalWrite ==
    /\ modstate = "resident"
    /\ \E v \in WrittenValues :
          /\ lib_global_counter' = v
          /\ last' = [op |-> "write", args |-> <<v>>, res |-> [ret |-> 0]]
    /\ extWrite' = TRUE
    /\ UNCHANGED <<modstate, nIncr>>
    /\ UNCHANGED procVars
    /\ UNCHANGED asmVars
    /\ UNCHANGED threadVars
    /\ UNCHANGED hostVars

Next ==
    \/ Load
    \/ Constructor
    \/ Unload
    \/ Initialize
    \/ ProcessData
    \/ ExecuteCallback
    \/ IncrementCounter
    \/ ExternalRead
    \/ ExternalWrite

Spec == Init /\ [][Next]_vars

(***************************************************************************)
(* HostSpec: one run of main() of tutorial14_main.c. The environment       *)
(* decides whether ./libshared14.so can be mapped and which of the five    *)
(* names its export table holds; the functions behind the names are those  *)
(* of sharedlib.c.                                                         *)
(***************************************************************************)
\* line 52: "Hello Dynamic Library" and its terminator
HostInput ==
    <<72, 101, 108, 108, 111, 32, 68, 121, 110, 97, 109, 105, 99, 32,
      76, 105, 98, 114, 97, 114, 121, 0>>

\* dlsym(handle, name): the symbol's address (here its name), or NULL
dlsym(table, name) == IF name \in table THEN name ELSE "NULL"

\* a module whose unload hook is not registered as a destructor
DlcloseEvents_NoDestructor == << <<"loader", "dlclose">> >>

\* what dlclose(handle) adds to the events: the release, then the unload
\* hook of sharedlib.c lines 65-68
DlcloseEvents == << <<"loader", "dlclose">>, <<"hook", "lib_destructor">> >>

\* printf("%s", buf): the bytes before the first NUL
StringAt(buf) == SubSeq(buf, 1, strlen(buf))

HostInit ==
    /\ hpc = "dlopen"
    /\ HostLocals
    /\ NotLoaded
    /\ ProcIdle
    /\ ThreadsIdle
    /\ AsmIdle

\* the failed load without its return
HostDlopenFails_FallsThrough ==
    /\ hpc = "dlopen"
    /\ handle' = "NULL"
    /\ log' = Append(log, <<"loader", "dlopen failed">>)
    /\ stderr' = Append(stderr, <<"Failed to load library: %s", "dlerror()">>)
    /\ hpc' = "dlsym_init"
    /\ UNCHANGED <<exports, ptrs, ret, output, printed, received, reads, returned>>
    /\ UNCHANGED <<modstate, lib_global_counter, nIncr, extWrite, last>>
    /\ UNCHANGED procVars
    /\ UNCHANGED asmVars
    /\ UNCHANGED threadVars

\* lines 21-25, dlopen returning NULL
HostDlopenFails ==
    /\ hpc = "dlopen"
    /\ handle' = "NULL"
    /\ log' = Append(log, <<"loader", "dlopen failed">>)
    /\ stderr' = Append(stderr, <<"Failed to load library: %s", "dlerror()">>)
    /\ returned' = <<1>>
    /\ hpc' = "exit"
    /\ UNCHANGED <<exports, ptrs, ret, output, printed, received, reads>>
    /\ UNCHANGED <<modstate, lib_global_counter, nIncr, extWrite, last>>
    /\ UNCHANGED procVars
    /\ UNCHANGED asmVars
    /\ UNCHANGED threadVars

\* lines 21-27, dlopen mapping an object: its .data is initialised and its
\* constructor runs before dlopen returns
HostDlopen ==
    /\ hpc = "dlopen"
    /\ \E table \in SUBSET Symbols : exports' = table
    /\ handle' = "handle"
    /\ modstate' = "resident"
    /\ lib_global_counter' = InitialCounter
    /\ log' = log \o << <<"loader", "dlopen">>, <<"hook", "lib_constructor">> >>
    /\ hpc' = "dlsym_init"
    /\ UNCHANGED <<ptrs, ret, output, printed, received, reads, stderr, returned>>
    /\ UNCHANGED <<nIncr, extWrite, last>>
    /\ UNCHANGED procVars
    /\ UNCHANGED asmVars
    /\ UNCHANGED threadVars

\* one of lines 30-36
HostDlsym(v, here, next) ==
    /\ hpc = here
    /\ ptrs' = [ptrs EXCEPT ![v] = dlsym(exports, SymbolOf[v])]
    /\ log' = Append(log, <<"dlsym", SymbolOf[v]>>)
    /\ hpc' = next
    /\ UNCHANGED <<exports, handle, ret, output, printed, received, reads, stderr, returned>>
    /\ UNCHANGED specVars
    /\ UNCHANGED procVars
    /\ UNCHANGED asmVars
    /\ UNCHANGED threadVars

\* line 30
HostDlsymInit == HostDlsym("lib_init", "dlsym_init", "dlsym_process")
\* line 31
HostDlsymProcess == HostDlsym("lib_process", "dlsym_process", "dlsym_callback")
\* line 32
HostDlsymCallback == HostDlsym("lib_callback", "dlsym_callback", "dlsym_increment")
\* line 33
HostDlsymIncrement == HostDlsym("lib_increment", "dlsym_increment", "dlsym_counter")
\* line 36
HostDlsymCounter == HostDlsym("counter_ptr", "dlsym_counter", "check")

\* the test without its !counter_ptr term
SomeSymbolMissing_Forgets_Counter ==
    \E v \in DOMAIN ptrs \ {"counter_ptr"} : ptrs[v] = "NULL"

\* line 38
SomeSymbolMissing == \E v \in DOMAIN ptrs : ptrs[v] = "NULL"

\* the early exit without its dlclose
HostSymbolsMissing_Leaks ==
    /\ hpc = "check"
    /\ SomeSymbolMissing
    /\ stderr' = Append(stderr, <<"Failed to find symbols">>)
    /\ returned' = <<1>>
    /\ hpc' = "exit"
    /\ UNCHANGED <<exports, handle, ptrs, ret, output, printed, received, reads, log>>
    /\ UNCHANGED specVars
    /\ UNCHANGED procVars
    /\ UNCHANGED asmVars
    /\ UNCHANGED threadVars

\* the early exit without its return
HostSymbolsMissing_FallsThrough ==
    /\ hpc = "check"
    /\ SomeSymbolMissing
    /\ stderr' = Append(stderr, <<"Failed to find symbols">>)
    /\ modstate' = "unloaded"
    /\ log' = log \o DlcloseEvents
    /\ hpc' = "call_init"
    /\ UNCHANGED <<exports, handle, ptrs, ret, output, printed, received, reads, returned>>
    /\ UNCHANGED <<lib_global_counter, nIncr, extWrite, last>>
    /\ UNCHANGED procVars
    /\ UNCHANGED asmVars
    /\ UNCHANGED threadVars

\* the early exit without its fprintf
HostSymbolsMissing_Silent ==
    /\ hpc = "check"
    /\ SomeSymbolMissing
    /\ modstate' = "unloaded"
    /\ log' = log \o DlcloseEvents
    /\ returned' = <<1>>
    /\ hpc' = "exit"
    /\ UNCHANGED <<exports, handle, ptrs, ret, output, printed, received, reads,
                   stderr>>
    /\ UNCHANGED <<lib_global_counter, nIncr, extWrite, last>>
    /\ UNCHANGED procVars
    /\ UNCHANGED asmVars
    /\ UNCHANGED threadVars

\* lines 38-42: a symbol is missing; diagnose, release, return 1
HostSymbolsMissing ==
    /\ hpc = "check"
    /\ SomeSymbolMissing
    /\ stderr' = Append(stderr, <<"Failed to find symbols">>)
    /\ modstate' = "unloaded"
    /\ log' = log \o DlcloseEvents
    /\ returned' = <<1>>
    /\ hpc' = "exit"
    /\ UNCHANGED <<exports, handle, ptrs, ret, output, printed, received, reads>>
    /\ UNCHANGED <<lib_global_counter, nIncr, extWrite, last>>
    /\ UNCHANGED procVars
    /\ UNCHANGED asmVars
    /\ UNCHANGED threadVars

\* the success path going straight to lib_process_data
HostSymbolsFound_SkipsInit ==
    /\ hpc = "check"
    /\ ~SomeSymbolMissing
    /\ hpc' = "call_process"
    /\ UNCHANGED <<exports, handle, ptrs, ret, output, printed, received, reads,
                   stderr, log, returned>>
    /\ UNCHANGED specVars
    /\ UNCHANGED procVars
    /\ UNCHANGED asmVars
    /\ UNCHANGED threadVars

\* lines 38 and 45: every symbol resolved
HostSymbolsFound ==
    /\ hpc = "check"
    /\ ~SomeSymbolMissing
    /\ hpc' = "call_init"
    /\ UNCHANGED <<exports, handle, ptrs, ret, output, printed, received, reads, stderr,
                   log, returned>>
    /\ UNCHANGED specVars
    /\ UNCHANGED procVars
    /\ UNCHANGED asmVars
    /\ UNCHANGED threadVars

\* lines 48-49
HostCallInit ==
    /\ hpc = "call_init"
    /\ ret' = lib_initialize
    /\ log' = Append(log, <<"call", "lib_initialize">>)
    /\ hpc' = "call_process"
    /\ UNCHANGED <<exports, handle, ptrs, output, printed, received, reads, stderr, returned>>
    /\ UNCHANGED specVars
    /\ UNCHANGED procVars
    /\ UNCHANGED asmVars
    /\ UNCHANGED threadVars

\* the call passing a capacity smaller than the input
HostCallProcess_TinyBuffer ==
    /\ hpc = "call_process"
    /\ LET r == lib_process_data(HostInput, output, Len(HostInput) - 1)
       IN /\ ret' = r.ret
          /\ output' = r.out
    /\ log' = Append(log, <<"call", "lib_process_data">>)
    /\ hpc' = "print_output"
    /\ UNCHANGED <<exports, handle, ptrs, printed, received, reads, stderr, returned>>
    /\ UNCHANGED specVars
    /\ UNCHANGED procVars
    /\ UNCHANGED asmVars
    /\ UNCHANGED threadVars

\* lines 52-55
HostCallProcess ==
    /\ hpc = "call_process"
    /\ LET r == lib_process_data(HostInput, output, OutputSize)
       IN /\ ret' = r.ret
          /\ output' = r.out
    /\ log' = Append(log, <<"call", "lib_process_data">>)
    /\ hpc' = "print_output"
    /\ UNCHANGED <<exports, handle, ptrs, printed, received, reads, stderr, returned>>
    /\ UNCHANGED specVars
    /\ UNCHANGED procVars
    /\ UNCHANGED asmVars
    /\ UNCHANGED threadVars

\* line 56
HostPrintOutput ==
    /\ hpc = "print_output"
    /\ printed' = StringAt(output)
    /\ hpc' = "call_callback"
    /\ UNCHANGED <<exports, handle, ptrs, ret, output, received, reads, stderr, log,
                   returned>>
    /\ UNCHANGED specVars
    /\ UNCHANGED procVars
    /\ UNCHANGED asmVars
    /\ UNCHANGED threadVars

\* lines 59-60; my_callback is lines 14-17
HostCallCallback ==
    /\ hpc = "call_callback"
    /\ LET r == lib_execute_callback("my_callback", 7)
       IN /\ ret' = r.ret
          /\ received' = received \o [k \in DOMAIN r.calls |-> r.calls[k].arg]
    /\ log' = Append(log, <<"call", "lib_execute_callback">>)
    /\ hpc' = "read_counter"
    /\ UNCHANGED <<exports, handle, ptrs, output, printed, reads, stderr, returned>>
    /\ UNCHANGED specVars
    /\ UNCHANGED procVars
    /\ UNCHANGED asmVars
    /\ UNCHANGED threadVars

\* line 63 or line 65: *counter_ptr
HostReadCounter(here, next) ==
    /\ hpc = here
    /\ reads' = Append(reads, lib_global_counter)
    /\ log' = Append(log, <<"deref", "lib_global_counter">>)
    /\ hpc' = next
    /\ UNCHANGED <<exports, handle, ptrs, ret, output, printed, received, stderr,
                   returned>>
    /\ UNCHANGED specVars
    /\ UNCHANGED procVars
    /\ UNCHANGED asmVars
    /\ UNCHANGED threadVars

\* line 63
HostReadInitial == HostReadCounter("read_counter", "call_increment")

\* line 64
HostCallIncrement ==
    /\ hpc = "call_increment"
    /\ lib_global_counter' = lib_increment_counter(lib_global_counter)
    /\ log' = Append(log, <<"call", "lib_increment_counter">>)
    /\ hpc' = "read_again"
    /\ UNCHANGED <<exports, handle, ptrs, ret, output, printed, received, reads, stderr,
                   returned>>
    /\ UNCHANGED <<modstate, nIncr, extWrite, last>>
    /\ UNCHANGED procVars
    /\ UNCHANGED asmVars
    /\ UNCHANGED threadVars

\* line 65
HostReadAfter == HostReadCounter("read_again", "dlclose")

\* main returning the last status instead of 0
HostDlclose_Returns_Ret ==
    /\ hpc = "dlclose"
    /\ modstate' = "unloaded"
    /\ log' = log \o DlcloseEvents
    /\ returned' = <<ret>>
    /\ hpc' = "exit"
    /\ UNCHANGED <<exports, handle, ptrs, ret, output, printed, received, reads,
                   stderr>>
    /\ UNCHANGED <<lib_global_counter, nIncr, extWrite, last>>
    /\ UNCHANGED procVars
    /\ UNCHANGED asmVars
    /\ UNCHANGED threadVars

\* lines 68-71
HostDlclose ==
    /\ hpc = "dlclose"
    /\ modstate' = "unloaded"
    /\ log' = log \o DlcloseEvents
    /\ returned' = <<0>>
    /\ hpc' = "exit"
    /\ UNCHANGED <<exports, handle, ptrs, ret, output, printed, received, reads, stderr>>
    /\ UNCHANGED <<lib_global_counter, nIncr, extWrite, last>>
    /\ UNCHANGED procVars
    /\ UNCHANGED asmVars
    /\ UNCHANGED threadVars

HostNext ==
    \/ HostDlopenFails
    \/ HostDlopen
    \/ HostDlsymInit
    \/ HostDlsymProcess
    \/ HostDlsymCallback
    \/ HostDlsymIncrement
    \/ HostDlsymCounter
    \/ HostSymbolsMissing
    \/ HostSymbolsFound
    \/ HostCallInit
    \/ HostCallProcess
    \/ HostPrintOutput
    \/ HostCallCallback
    \/ HostReadInitial
    \/ HostCallIncrement
    \/ HostReadAfter
    \/ HostDlclose

HostSpec == HostInit /\ [][HostNext]_vars

(***************************************************************************)
(* ThreadSpec: two threads of one process call lib_increment_counter on    *)
(* the loaded module. Line 77, lib_global_counter++, has no lock and no    *)
(* atomic: it is a load of the int, an add in a register and a store, and  *)
(* another thread can run between the load and the store.                  *)
(***************************************************************************)
ThreadInit ==
    /\ modstate = "resident"
    /\ lib_global_counter = InitialCounter
    /\ nIncr = 0
    /\ extWrite = FALSE
    /\ last = [op |-> "lib_constructor", args |-> << >>, res |-> [ret |-> 0]]
    /\ ThreadsIdle
    /\ ProcIdle
    /\ HostIdle
    /\ AsmIdle

\* the increment done on memory in one locked instruction
ThreadStore_Atomic(t) ==
    /\ tpc[t] = "loaded"
    /\ lib_global_counter' = lib_increment_counter(lib_global_counter)
    /\ tpc' = [tpc EXCEPT ![t] = "idle"]
    /\ tcalls' = [tcalls EXCEPT ![t] = @ + 1]
    /\ UNCHANGED treg
    /\ UNCHANGED <<modstate, nIncr, extWrite, last>>
    /\ UNCHANGED procVars
    /\ UNCHANGED asmVars
    /\ UNCHANGED hostVars

\* line 77, first half: thread t enters lib_increment_counter and loads
\* lib_global_counter into a register
ThreadLoad(t) ==
    /\ modstate = "resident"
    /\ tpc[t] = "idle"
    /\ tcalls[t] < MaxThreadCalls
    /\ treg' = [treg EXCEPT ![t] = lib_global_counter]
    /\ tpc' = [tpc EXCEPT ![t] = "loaded"]
    /\ UNCHANGED tcalls
    /\ UNCHANGED specVars
    /\ UNCHANGED procVars
    /\ UNCHANGED asmVars
    /\ UNCHANGED hostVars

\* line 77, second half: thread t adds one to its register, stores it to
\* lib_global_counter and returns
ThreadStore(t) ==
    /\ tpc[t] = "loaded"
    /\ lib_global_counter' = lib_increment_counter(treg[t])
    /\ tpc' = [tpc EXCEPT ![t] = "idle"]
    /\ tcalls' = [tcalls EXCEPT ![t] = @ + 1]
    /\ UNCHANGED treg
    /\ UNCHANGED <<modstate, nIncr, extWrite, last>>
    /\ UNCHANGED procVars
    /\ UNCHANGED asmVars
    /\ UNCHANGED hostVars

ThreadNext ==
    \/ \E t \in Threads : ThreadLoad(t)
    \/ \E t \in Threads : ThreadStore(t)

ThreadSpec == ThreadInit /\ [][ThreadNext]_vars

(***************************************************************************)
(* The assembly routines of the other tutorials, run an instruction at a   *)
(* time on the registers, the flags and the stack. ip names the next       *)
(* instruction by its line in the source file. The stack holds the         *)
(* quadwords at and below the RSP of the routine's entry, the last pushed  *)
(* last; RSP is kept in bytes relative to its value at entry.              *)
(***************************************************************************)
\* the variables no assembly routine touches
hostedVars == <<procVars, specVars, hostVars, threadVars>>

\* the registers r with register name set to v
SetReg(r, name, v) == [r EXCEPT ![name] = v]

\* pushq: RSP goes down by 8 and v is stored there
PushRegs(r) == SetReg(r, "rsp", r.rsp - 8)
Pushed(st, v) == Append(st, v)

\* popq: the quadword at RSP, and RSP goes up by 8
Top(st) == st[Len(st)]
Popped(st) == SubSeq(st, 1, Len(st) - 1)
PopRegs(r) == SetReg(r, "rsp", r.rsp + 8)

\* one instruction that touches registers, flags and stack only
Instr(here, next, r, f, st) ==
    /\ ip = here
    /\ ip' = next
    /\ regs' = r
    /\ flags' = f
    /\ stack' = st
    /\ UNCHANGED <<mem, args, frames, loads, result>>
    /\ UNCHANGED hostedVars

(***************************************************************************)
(* 64-bit values whose full width matters are four 16-bit limbs, the       *)
(* lowest first.                                                           *)
(***************************************************************************)
\* the 64-bit value of n, for 0 <= n < 2^31
Quad(n) == <<n % Half, n \div Half, 0, 0>>

\* 2^64 - 1, which is -1 as a long
QuadOnes == <<Half - 1, Half - 1, Half - 1, Half - 1>>

\* addq: the low 64 bits of x + y
QAdd(x, y) ==
    LET s1 == x[1] + y[1]
        s2 == x[2] + y[2] + (s1 \div Half)
        s3 == x[3] + y[3] + (s2 \div Half)
        s4 == x[4] + y[4] + (s3 \div Half)
    IN <<s1 % Half, s2 % Half, s3 % Half, s4 % Half>>

\* a half (lo or hi) of the 32-bit product of limb i of x and limb j of y;
\* 0 when there is no limb j
LimbProduct(x, y, i, j, half) ==
    IF j \in 0..3 THEN MulHalves(x[i + 1], y[j + 1])[half] ELSE 0

\* what the limb products add to limb k of the 128-bit product
Column(x, y, k) ==
    LET at(i) == LimbProduct(x, y, i, k - i, "lo")
                 + LimbProduct(x, y, i, k - 1 - i, "hi")
    IN at(0) + at(1) + at(2) + at(3)

\* limbs k .. 7 of the 128-bit product, given the carry into limb k
RECURSIVE ProductFrom(_, _, _, _)
ProductFrom(x, y, k, carry) ==
    IF k > 7 THEN << >>
    ELSE LET sum == Column(x, y, k) + carry
         IN <<sum % Half>> \o ProductFrom(x, y, k + 1, sum \div Half)

\* mulq: the unsigned 128-bit product of x and y, as RDX:RAX
Mulq(x, y) ==
    LET product == ProductFrom(x, y, 0, 0)
    IN [rax |-> SubSeq(product, 1, 4), rdx |-> SubSeq(product, 5, 8)]

(***************************************************************************)
(* MulAddSpec: multiply_add_asm of tutorial10_complete.cpp, lines 10-17,   *)
(* called with a in RDI, b in RSI and c in RDX.                            *)
(***************************************************************************)
\* arguments: 0, 5, 6, 10, 2^32 and 2^64 - 1
MulAddValues == {Quad(0), Quad(5), Quad(6), Quad(10), <<0, 0, 1, 0>>, QuadOnes}

\* the state at the routine's entry: the caller has loaded the arguments
\* and its call has pushed the return address
MulAddInit ==
    /\ ip = "L11"
    /\ \E a \in MulAddValues, b \in MulAddValues, c \in MulAddValues :
          /\ args = [a |-> a, b |-> b, c |-> c]
          /\ regs = [rax |-> Quad(0), rdx |-> c, rsi |-> b, rdi |-> a,
                     rbp |-> 64, rsp |-> 0]
    /\ flags = [zf |-> FALSE, cf |-> FALSE, sf |-> FALSE, of |-> FALSE]
    /\ stack = <<"main">>
    /\ mem = << >>
    /\ frames = << >>
    /\ loads = {}
    /\ result = << >>
    /\ ProcIdle
    /\ NotLoaded
    /\ HostIdle
    /\ ThreadsIdle

\* line 11: pushq %rbp
MulAdd_PushRbp ==
    Instr("L11", "L12", PushRegs(regs), flags, Pushed(stack, regs.rbp))

\* line 12: movq %rsp, %rbp
MulAdd_SetFrame ==
    Instr("L12", "L13", SetReg(regs, "rbp", regs.rsp), flags, stack)

\* line 13: movq %rdi, %rax
MulAdd_LoadA ==
    Instr("L13", "L14", SetReg(regs, "rax", regs.rdi), flags, stack)

\* line 14: mulq %rsi; RDX:RAX = RAX * RSI, and CF = OF = (RDX # 0)
MulAdd_Multiply ==
    LET p == Mulq(regs.rax, regs.rsi)
        carry == p.rdx # Quad(0)
    IN Instr("L14", "L15",
             [regs EXCEPT !.rax = p.rax, !.rdx = p.rdx],
             [flags EXCEPT !.cf = carry, !.of = carry], stack)

\* line 15: addq %rdx, %rax (the flags it sets are read by nothing)
MulAdd_Add ==
    Instr("L15", "L16", SetReg(regs, "rax", QAdd(regs.rax, regs.rdx)),
          flags, stack)

\* line 16: popq %rbp
MulAdd_PopRbp ==
    Instr("L16", "L17", SetReg(PopRegs(regs), "rbp", Top(stack)), flags,
          Popped(stack))

\* line 17: ret; the caller finds the value in RAX
MulAdd_Ret ==
    /\ ip = "L17"
    /\ ip' = Top(stack)
    /\ stack' = Popped(stack)
    /\ regs' = PopRegs(regs)
    /\ result' = <<regs.rax>>
    /\ UNCHANGED <<flags, mem, args, frames, loads>>
    /\ UNCHANGED hostedVars

MulAddNext ==
    \/ MulAdd_PushRbp
    \/ MulAdd_SetFrame
    \/ MulAdd_LoadA
    \/ MulAdd_Multiply
    \/ MulAdd_Add
    \/ MulAdd_PopRbp
    \/ MulAdd_Ret

MulAddSpec == MulAddInit /\ [][MulAddNext]_vars

(***************************************************************************)
(* FibSpec: fibonacci_asm of tutorial4_complete.c, lines 8-37, called with *)
(* n in RDI. The processor runs one instruction after another, so the      *)
(* specification is weakly fair on its steps. Every value that arises for  *)
(* n within the bound is far inside 64 bits, so the registers hold plain   *)
(* integers.                                                               *)
(***************************************************************************)
\* a below b, both read as unsigned 64-bit values
Below(a, b) ==
    IF (a < 0) = (b < 0) THEN a < b ELSE b < 0

\* the flags after dst - src (cmpq, subq, decq) or a sum (addq) for
\* operands small in magnitude, where no signed overflow arises
FlagsOfDifference(dst, src) ==
    [zf |-> dst = src, cf |-> Below(dst, src), sf |-> dst - src < 0,
     of |-> FALSE]

FlagsOfSum(sum) ==
    [zf |-> sum = 0, cf |-> FALSE, sf |-> sum < 0, of |-> FALSE]

\* jle: ZF = 1 or SF # OF
LessOrEqual(f) == f.zf \/ f.sf # f.of

\* values the caller may hold in RBX and R12
CalleeSavedValues == {1001, 2002}

\* the registers an activation must hand back, the depth of the stack and
\* the argument, at the activation's entry
FrameAt(r, st) ==
    [n |-> r.rdi, rsp |-> r.rsp, rbp |-> r.rbp, rbx |-> r.rbx,
     r12 |-> r.r12, depth |-> Len(st), ret |-> Top(st)]

\* main, lines 41-42, has called fibonacci_asm(n)
FibInit ==
    /\ ip = "L9"
    /\ \E n \in 0..MaxFibN, b \in CalleeSavedValues, c \in CalleeSavedValues :
          /\ args = [n |-> n, rbx |-> b, r12 |-> c]
          /\ regs = [rax |-> 77, rbx |-> b, r12 |-> c, rdi |-> n,
                     rbp |-> 64, rsp |-> 0]
    /\ flags = [zf |-> FALSE, cf |-> FALSE, sf |-> FALSE, of |-> FALSE]
    /\ stack = <<"main">>
    /\ frames = << FrameAt(regs, stack) >>
    /\ mem = << >>
    /\ loads = {}
    /\ result = << >>
    /\ ProcIdle
    /\ NotLoaded
    /\ HostIdle
    /\ ThreadsIdle

\* line 9: pushq %rbp
Fib_PushRbp ==
    Instr("L9", "L10", PushRegs(regs), flags, Pushed(stack, regs.rbp))

\* line 10: movq %rsp, %rbp
Fib_SetFrame ==
    Instr("L10", "L11", SetReg(regs, "rbp", regs.rsp), flags, stack)

\* line 11: pushq %rbx
Fib_PushRbx ==
    Instr("L11", "L12", PushRegs(regs), flags, Pushed(stack, regs.rbx))

\* line 12: pushq %r12
Fib_PushR12 ==
    Instr("L12", "L14", PushRegs(regs), flags, Pushed(stack, regs.r12))

\* line 14: cmpq $1, %rdi
Fib_Compare ==
    Instr("L14", "L15", regs, FlagsOfDifference(regs.rdi, 1), stack)

\* line 15: jle base_case
Fib_Branch ==
    Instr("L15", IF LessOrEqual(flags) THEN "L31" ELSE "L18", regs, flags,
          stack)

\* line 18: movq %rdi, %rbx
Fib_SaveN ==
    Instr("L18", "L19", SetReg(regs, "rbx", regs.rdi), flags, stack)

\* line 19: decq %rdi (CF is left as it was)
Fib_Decrement ==
    Instr("L19", "L20", SetReg(regs, "rdi", regs.rdi - 1),
          [FlagsOfDifference(regs.rdi, 1) EXCEPT !.cf = flags.cf], stack)

\* call fibonacci_asm: the return address is pushed and a new activation
\* is entered
Fib_Call(here, back) ==
    /\ ip = here
    /\ ip' = "L9"
    /\ regs' = PushRegs(regs)
    /\ stack' = Pushed(stack, back)
    /\ frames' = Append(frames, FrameAt(regs', stack'))
    /\ UNCHANGED <<flags, mem, args, loads, result>>
    /\ UNCHANGED hostedVars

\* line 20: call fibonacci_asm, for fib(n-1)
Fib_CallFirst == Fib_Call("L20", "L21")

\* line 21: movq %rax, %r12
Fib_KeepFirst ==
    Instr("L21", "L23", SetReg(regs, "r12", regs.rax), flags, stack)

\* line 23: movq %rbx, %rdi
Fib_RestoreN ==
    Instr("L23", "L24", SetReg(regs, "rdi", regs.rbx), flags, stack)

\* line 24: subq $2, %rdi
Fib_SubtractTwo ==
    Instr("L24", "L25", SetReg(regs, "rdi", regs.rdi - 2),
          FlagsOfDifference(regs.rdi, 2), stack)

\* line 25: call fibonacci_asm, for fib(n-2)
Fib_CallSecond == Fib_Call("L25", "L27")

\* line 27: addq %r12, %rax
Fib_Add ==
    Instr("L27", "L28", SetReg(regs, "rax", regs.rax + regs.r12),
          FlagsOfSum(regs.rax + regs.r12), stack)

\* line 28: jmp cleanup
Fib_Jump == Instr("L28", "L34", regs, flags, stack)

\* line 31: movq %rdi, %rax
Fib_BaseCase ==
    Instr("L31", "L34", SetReg(regs, "rax", regs.rdi), flags, stack)

\* the saved R12 dropped from the stack and not put back in the register
Fib_PopR12_Discards ==
    Instr("L34", "L35", PopRegs(regs), flags, Popped(stack))

\* line 34: popq %r12
Fib_PopR12 ==
    Instr("L34", "L35", SetReg(PopRegs(regs), "r12", Top(stack)), flags,
          Popped(stack))

\* line 35: popq %rbx
Fib_PopRbx ==
    Instr("L35", "L36", SetReg(PopRegs(regs), "rbx", Top(stack)), flags,
          Popped(stack))

\* line 36: popq %rbp
Fib_PopRbp ==
    Instr("L36", "L37", SetReg(PopRegs(regs), "rbp", Top(stack)), flags,
          Popped(stack))

\* line 37: ret; the activation ends, and the last one hands RAX to main
Fib_Ret ==
    /\ ip = "L37"
    /\ ip' = Top(stack)
    /\ stack' = Popped(stack)
    /\ regs' = PopRegs(regs)
    /\ frames' = Popped(frames)
    /\ result' = IF Top(stack) = "main" THEN <<regs.rax>> ELSE result
    /\ UNCHANGED <<flags, mem, args, loads>>
    /\ UNCHANGED hostedVars

FibNext ==
    \/ Fib_PushRbp
    \/ Fib_SetFrame
    \/ Fib_PushRbx
    \/ Fib_PushR12
    \/ Fib_Compare
    \/ Fib_Branch
    \/ Fib_SaveN
    \/ Fib_Decrement
    \/ Fib_CallFirst
    \/ Fib_KeepFirst
    \/ Fib_RestoreN
    \/ Fib_SubtractTwo
    \/ Fib_CallSecond
    \/ Fib_Add
    \/ Fib_Jump
    \/ Fib_BaseCase
    \/ Fib_PopR12
    \/ Fib_PopRbx
    \/ Fib_PopRbp
    \/ Fib_Ret

FibSpec == FibInit /\ [][FibNext]_vars /\ WF_vars(FibNext)

(***************************************************************************)
(* SearchSpec: array_search_asm of tutorial7_complete.c, lines 28-55. A    *)
(* pointer into the array is kept as its byte offset from arr; the array   *)
(* may extend past the count elements the caller passes.                   *)
(***************************************************************************)
\* elements and targets
SearchValues == {5, 17, -1}

\* sizeof(long)
LongSize == 8

\* the flags after xorq, testq: CF = OF = 0
FlagsOfLogic(value) ==
    [zf |-> value = 0, cf |-> FALSE, sf |-> value < 0, of |-> FALSE]

SearchInit ==
    /\ ip = "L32"
    /\ mem \in [arr : [1..MaxArr -> SearchValues]]
    /\ args \in [count : 0..MaxArr, target : SearchValues]
    /\ regs = [rax |-> 77, rcx |-> 77, rdx |-> 77, rsi |-> 77]
    /\ flags = [zf |-> FALSE, cf |-> FALSE, sf |-> FALSE, of |-> FALSE]
    /\ stack = << >>
    /\ frames = << >>
    /\ loads = {}
    /\ result = << >>
    /\ ProcIdle
    /\ NotLoaded
    /\ HostIdle
    /\ ThreadsIdle

\* line 32: movq arr, %rsi
Search_LoadPointer == Instr("L32", "L33", SetReg(regs, "rsi", 0), flags, stack)

\* line 33: movq count, %rcx
Search_LoadCount ==
    Instr("L33", "L34", SetReg(regs, "rcx", args.count), flags, stack)

\* line 34: movq target, %rdx
Search_LoadTarget ==
    Instr("L34", "L35", SetReg(regs, "rdx", args.target), flags, stack)

\* line 35: xorq %rax, %rax
Search_ClearIndex ==
    Instr("L35", "L36", SetReg(regs, "rax", 0), FlagsOfLogic(0), stack)

\* line 36: testq %rcx, %rcx
Search_TestCount ==
    Instr("L36", "L37", regs, FlagsOfLogic(regs.rcx), stack)

\* line 37: jz 3f
Search_SkipIfEmpty ==
    Instr("L37", IF flags.zf THEN "L46" ELSE "L39", regs, flags, stack)

\* line 39: cmpq (%rsi), %rdx; the element at RSI is loaded
Search_Compare ==
    /\ ip = "L39"
    /\ ip' = "L40"
    /\ loads' = loads \cup {regs.rsi \div LongSize}
    /\ flags' = FlagsOfDifference(regs.rdx,
                                  mem.arr[regs.rsi \div LongSize + 1])
    /\ UNCHANGED <<regs, stack, mem, args, frames, result>>
    /\ UNCHANGED hostedVars

\* line 40: je 2f
Search_ExitIfEqual ==
    Instr("L40", IF flags.zf THEN "L48" ELSE "L41", regs, flags, stack)

\* line 41: addq $8, %rsi
Search_Advance ==
    Instr("L41", "L42", SetReg(regs, "rsi", regs.rsi + LongSize),
          FlagsOfSum(regs.rsi + LongSize), stack)

\* line 42: incq %rax (CF is left as it was)
Search_NextIndex ==
    Instr("L42", "L43", SetReg(regs, "rax", regs.rax + 1),
          [FlagsOfSum(regs.rax + 1) EXCEPT !.cf = flags.cf], stack)

\* line 43: decq %rcx (CF is left as it was)
Search_CountDown ==
    Instr("L43", "L44", SetReg(regs, "rcx", regs.rcx - 1),
          [FlagsOfDifference(regs.rcx, 1) EXCEPT !.cf = flags.cf], stack)

\* line 44: jnz 1b
Search_LoopBack ==
    Instr("L44", IF flags.zf THEN "L46" ELSE "L39", regs, flags, stack)

\* the not-found exit leaving the index in RAX
Search_NotFound_KeepsIndex == Instr("L46", "L48", regs, flags, stack)

\* line 46: movq $-1, %rax
Search_NotFound == Instr("L46", "L48", SetReg(regs, "rax", -1), flags, stack)

\* lines 48 and 54: movl %eax, index; return index
Search_Return ==
    /\ ip = "L48"
    /\ ip' = "main"
    /\ result' = <<SizeToInt(regs.rax)>>
    /\ UNCHANGED <<regs, flags, stack, mem, args, frames, loads>>
    /\ UNCHANGED hostedVars

SearchNext ==
    \/ Search_LoadPointer
    \/ Search_LoadCount
    \/ Search_LoadTarget
    \/ Search_ClearIndex
    \/ Search_TestCount
    \/ Search_SkipIfEmpty
    \/ Search_Compare
    \/ Search_ExitIfEqual
    \/ Search_Advance
    \/ Search_NextIndex
    \/ Search_CountDown
    \/ Search_LoopBack
    \/ Search_NotFound
    \/ Search_Return

SearchSpec == SearchInit /\ [][SearchNext]_vars

(***************************************************************************)
(* MemcmpSpec: memcmp_asm of tutorial6_complete.c, lines 41-63. A pointer  *)
(* is kept as its byte offset from ptr1 or ptr2. The statement is entered  *)
(* with the flags the code before it left: ZF and CF may each be set or    *)
(* clear.                                                                  *)
(***************************************************************************)
\* bytes of the two buffers: 'A', 'B' and a byte above 127
MemcmpBytes == {65, 66, 200}

\* a byte read as a signed value
SignedByte(b) == IF b >= 128 THEN b - 256 ELSE b

\* the flags after the byte subtraction a - b (cmpsb); DF is untouched
FlagsOfByteDifference(a, b, df) ==
    [zf |-> a = b,
     cf |-> a < b,
     sf |-> (a - b) % 256 >= 128,
     of |-> SignedByte(a) - SignedByte(b) \notin -128..127,
     df |-> df]

MemcmpInit ==
    /\ ip = "L45"
    /\ mem \in [p1 : [1..MaxNum -> MemcmpBytes], p2 : [1..MaxNum -> MemcmpBytes]]
    /\ args \in [num : 0..MaxNum]
    /\ regs = [eax |-> 77, rcx |-> 77, rsi |-> 77, rdi |-> 77]
    /\ flags \in [zf : BOOLEAN, cf : BOOLEAN, sf : {FALSE}, of : {FALSE},
                  df : {FALSE}]
    /\ stack = << >>
    /\ frames = << >>
    /\ loads = {}
    /\ result = << >>
    /\ ProcIdle
    /\ NotLoaded
    /\ HostIdle
    /\ ThreadsIdle

\* line 45: movq ptr1, %rsi
Memcmp_LoadFirst == Instr("L45", "L46", SetReg(regs, "rsi", 0), flags, stack)

\* line 46: movq ptr2, %rdi
Memcmp_LoadSecond == Instr("L46", "L47", SetReg(regs, "rdi", 0), flags, stack)

\* line 47: movq num, %rcx
Memcmp_LoadNum ==
    Instr("L47", "L48", SetReg(regs, "rcx", args.num), flags, stack)

\* line 48: cld
Memcmp_ClearDirection ==
    Instr("L48", "L49", regs, [flags EXCEPT !.df = FALSE], stack)

\* line 49, repe cmpsb with RCX = 0: nothing is compared and no flag is
\* written
Memcmp_RepeEnds ==
    /\ regs.rcx = 0
    /\ Instr("L49", "L50", regs, flags, stack)

\* line 49, repe cmpsb with RCX # 0: one cmpsb; RSI and RDI go up, RCX
\* down; the repetition goes on while the bytes were equal
Memcmp_RepeCompares ==
    /\ ip = "L49"
    /\ regs.rcx # 0
    /\ flags' = FlagsOfByteDifference(mem.p1[regs.rsi + 1],
                                      mem.p2[regs.rdi + 1], flags.df)
    /\ regs' = [regs EXCEPT !.rsi = @ + 1, !.rdi = @ + 1, !.rcx = @ - 1]
    /\ loads' = loads \cup {regs.rsi}
    /\ ip' = IF flags'.zf THEN "L49" ELSE "L50"
    /\ UNCHANGED <<stack, mem, args, frames, result>>
    /\ UNCHANGED hostedVars

\* line 50: movl $0, %eax
Memcmp_AssumeEqual == Instr("L50", "L51", SetReg(regs, "eax", 0), flags, stack)

\* line 51: je 2f
Memcmp_ExitIfEqual ==
    Instr("L51", IF flags.zf THEN "L56" ELSE "L52", regs, flags, stack)

\* line 52: movl $-1, %eax
Memcmp_AssumeBelow == Instr("L52", "L53", SetReg(regs, "eax", -1), flags, stack)

\* line 53: jb 2f
Memcmp_ExitIfBelow ==
    Instr("L53", IF flags.cf THEN "L56" ELSE "L54", regs, flags, stack)

\* line 54: movl $1, %eax
Memcmp_Above == Instr("L54", "L56", SetReg(regs, "eax", 1), flags, stack)

\* lines 56 and 62: movl %eax, result; return result
Memcmp_Return ==
    /\ ip = "L56"
    /\ ip' = "main"
    /\ result' = <<regs.eax>>
    /\ UNCHANGED <<regs, flags, stack, mem, args, frames, loads>>
    /\ UNCHANGED hostedVars

MemcmpNext ==
    \/ Memcmp_LoadFirst
    \/ Memcmp_LoadSecond
    \/ Memcmp_LoadNum
    \/ Memcmp_ClearDirection
    \/ Memcmp_RepeEnds
    \/ Memcmp_RepeCompares
    \/ Memcmp_AssumeEqual
    \/ Memcmp_ExitIfEqual
    \/ Memcmp_AssumeBelow
    \/ Memcmp_ExitIfBelow
    \/ Memcmp_Above
    \/ Memcmp_Return

MemcmpSpec == MemcmpInit /\ [][MemcmpNext]_vars

(***************************************************************************)
(* Properties of lib_process_data (ProcSpec).                              *)
(***************************************************************************)
\* the length of a C string as the caller knows it
CLen(s) == Len(s) - 1

\* the uppercase letter of an ASCII lowercase letter, any other byte itself
UpperOf(c) == IF c \in 97..122 THEN c - 32 ELSE c

\* the call ran with both buffers present
ProcBuffersPresent == ppc = "done" /\ pin # NULL /\ pout # NULL

\* C1: with an input string s and an output buffer of capacity > len(s),
\* lib_process_data leaves in output[0..len(s)-1] the bytes of s in reverse
\* order, a-z replaced by A-Z and every other byte as it was, and returns
\* len(s).
C1_ReversedUppercased ==
    (ProcBuffersPresent /\ CLen(pin) < psize) =>
        /\ pres.ret = CLen(pin)
        /\ \A i \in 0..(CLen(pin) - 1) :
              pres.out[i + 1] = UpperOf(pin[CLen(pin) - i])

\* C1 witness: "z{`" was turned into "`{Z" and 3 returned
C1_Witness ==
    /\ ProcBuffersPresent
    /\ pin = <<122, 123, 96, 0>>
    /\ psize = 4
    /\ pres.ret = 3
    /\ SubSeq(pres.out, 1, 3) = <<96, 123, 90>>

\* C2: on every path, every output index lib_process_data stores to, the
\* terminator's included, is below output_size, and the memory from index
\* output_size on is as it was before the call.
C2_NoWritePastCapacity ==
    ppc = "done" =>
        /\ \A i \in pres.written : i < psize
        /\ pout # NULL =>
              \A k \in psize..(MemSize - 1) : pres.out[k + 1] = pout[k + 1]

\* C2 witness: a success whose terminator went to the last index of the
\* buffer, with memory after the buffer
C2_Witness ==
    /\ ProcBuffersPresent
    /\ psize >= 2
    /\ psize < MemSize
    /\ CLen(pin) = psize - 1
    /\ pres.ret = psize - 1
    /\ (psize - 1) \in pres.written

\* C3: with an output buffer of capacity >= 1 and a non-null input s with
\* len(s) >= capacity (len(s) = capacity included), lib_process_data returns
\* -2 (BufferTooSmall) and leaves no truncated result: nothing is stored.
C3_BufferTooSmall ==
    (ProcBuffersPresent /\ psize >= 1 /\ CLen(pin) >= psize) =>
        /\ pres.ret = -2
        /\ pres.written = {}
        /\ pres.out = pout

\* C3 witness: len(s) = capacity was refused
C3_Witness ==
    /\ ProcBuffersPresent
    /\ psize >= 1
    /\ CLen(pin) = psize
    /\ pres.ret = -2

\* C4: lib_process_data returns -1 (InvalidArgument) whenever input is
\* null, output is null or output_size is 0; capacity 0 never yields -2,
\* whatever the length; with a null pointer the input is not read.
C4_InvalidArgument ==
    ppc = "done" =>
        /\ (pin = NULL \/ pout = NULL \/ psize = 0) => pres.ret = -1
        /\ psize = 0 => pres.ret # -2
        /\ (pin = NULL \/ pout = NULL) => pres.reads = {}

\* C4 witness: capacity 0 with both buffers present and a non-empty input,
\* which the length check alone would have refused with -2
C4_Witness ==
    /\ ProcBuffersPresent
    /\ psize = 0
    /\ CLen(pin) >= 1
    /\ pres.ret = -1

(***************************************************************************)
(* Properties of the loaded module (Spec).                                 *)
(***************************************************************************)
LastIs(op) == last.op = op

\* C5: for every int value and every pure callback cb,
\* lib_execute_callback(cb, value) invokes cb exactly once, with
\* value*11 + 10 (value*10 + (value+10) on 32 bits), and returns exactly
\* the value cb returned.
C5_CallbackTransform ==
    (LastIs("lib_execute_callback") /\ last.args[1] # NULL_FN) =>
        LET cb == last.args[1]
            value == last.args[2]
            expected == Add32(Mul32(value, 11), 10)
        IN /\ Len(last.res.calls) = 1
           /\ last.res.calls[1].arg = expected
           /\ last.res.ret = last.res.calls[1].res
           /\ last.res.ret = CallbackResult(cb, expected)

\* C5 witness: 195225786*11 + 10 = 2^31 + 8 reached the callback as
\* -2^31 + 8 and came back unchanged from the identity callback
C5_Witness ==
    /\ LastIs("lib_execute_callback")
    /\ last.args = <<"identity", 195225786>>
    /\ Len(last.res.calls) = 1
    /\ last.res.calls[1].arg = INT_MIN + 8
    /\ last.res.ret = INT_MIN + 8

C6_NullCall == LastIs("lib_execute_callback") /\ last.args[1] = NULL_FN

C6_State == C6_NullCall => (last.res.ret = -1 /\ last.res.calls = << >>)

C6_Step ==
    C6_NullCall' =>
        /\ lib_global_counter' = lib_global_counter
        /\ modstate' = modstate

\* C6: with a null callback lib_execute_callback returns -1 for every
\* value, invokes nothing, and leaves the counter and the module as they
\* were.
C6_NullCallback == []C6_State /\ [][C6_Step]_vars

\* C6 witness: a null-callback call answered -1 on a module whose counter
\* had been raised
C6_Witness ==
    /\ C6_NullCall
    /\ last.res.ret = -1
    /\ lib_global_counter = 2
    /\ modstate = "resident"

C7_State ==
    /\ modstate = "constructing" => lib_global_counter = 0
    /\ (modstate = "resident" /\ ~extWrite) => lib_global_counter = nIncr

C7_Step ==
    (LastIs("lib_increment_counter")' /\ nIncr' = nIncr + 1
        /\ lib_global_counter # INT_MAX) =>
            lib_global_counter' = lib_global_counter + 1

\* C7: a freshly loaded module's counter is 0; after any operations with
\* exactly n lib_increment_counter calls and no external write it is n;
\* each call (it returns nothing, so cannot fail) raises it by exactly one.
C7_CounterCountsIncrements == []C7_State /\ [][C7_Step]_vars

\* C7 witness: three calls, other operations among them, counter 3
C7_Witness ==
    /\ modstate = "resident"
    /\ ~extWrite
    /\ nIncr = 3
    /\ lib_global_counter = 3
    /\ LastIs("lib_initialize")

\* C8: while the module is loaded the counter changes only in a
\* lib_increment_counter call or a store through the handle: the load
\* hook, lib_initialize, lib_process_data (success or failure) and
\* lib_execute_callback leave it as it was.
C8_CounterFrame ==
    [][ /\ (modstate # "unloaded" /\ lib_global_counter' # lib_global_counter)
            => (LastIs("lib_increment_counter")' \/ LastIs("write")')
        /\ (\/ LastIs("lib_constructor")'
            \/ LastIs("lib_initialize")'
            \/ LastIs("lib_process_data")'
            \/ LastIs("lib_execute_callback")')
            => lib_global_counter' = lib_global_counter ]_vars

\* C8 witness: lib_process_data succeeded on a module whose counter had
\* been raised to 2, and the counter is still 2
C8_Witness ==
    /\ LastIs("lib_process_data")
    /\ last.res.ret = 2
    /\ nIncr = 2
    /\ ~extWrite
    /\ lib_global_counter = 2

(***************************************************************************)
(* Properties of the Host run (HostSpec).                                  *)
(***************************************************************************)
\* the positions of an event in the log
Positions(ev) == { i \in DOMAIN log : log[i] = ev }

Released == <<"loader", "dlclose">>

\* the load succeeded: dlopen returned a handle and the module's load hook ran
LoadSucceeded == Positions(<<"loader", "dlopen">>) # {}

\* main has returned
HostReturned == returned # << >>

\* C9: when main returns, dlclose has run exactly once if the load
\* succeeded (on the missing-symbol exit and on the normal path alike,
\* ret playing no part) and not at all if the load failed; at no moment
\* has it run twice.
C9_ReleasedExactlyOnce ==
    /\ Cardinality(Positions(Released)) <= 1
    /\ HostReturned =>
          Cardinality(Positions(Released)) = (IF LoadSucceeded THEN 1 ELSE 0)

\* C9 witness: the missing-symbol exit, after a load that succeeded, with
\* the module released once
C9_Witness ==
    /\ returned = <<1>>
    /\ LoadSucceeded
    /\ ptrs.lib_process = "NULL"
    /\ Cardinality(Positions(Released)) = 1
    /\ modstate = "unloaded"

\* a use of a resolved handle: a call through a function pointer or a
\* dereference of counter_ptr
IsUse(ev) == ev[1] \in {"call", "deref"}

\* C10: no call through a resolved function pointer and no dereference of
\* counter_ptr comes after dlclose(handle).
C10_NoUseAfterRelease ==
    \A i, j \in DOMAIN log : (i < j /\ log[i] = Released) => ~IsUse(log[j])

\* C10 witness: the full run has ended; calls and dereferences happened,
\* the last of them right before the release
C10_Witness ==
    /\ returned = <<0>>
    /\ Cardinality({ i \in DOMAIN log : IsUse(log[i]) }) = 6
    /\ \E i \in DOMAIN log :
          /\ log[i] = <<"deref", "lib_global_counter">>
          /\ log[i + 1] = Released

\* a symbol main asks for is not in the mapped object's export table
ExportMissing == LoadSucceeded /\ exports # Symbols

\* the statements of main from line 48 on (step 3 and later)
PastBinding ==
    hpc \in {"call_init", "call_process", "print_output", "call_callback",
             "read_counter", "call_increment", "read_again", "dlclose"}

\* C11: when any of the five exports does not resolve, the Host invokes
\* no export and reads no counter value, never reaches line 48 or later,
\* and returns 1 with the module released.
C11_MissingSymbolAborts ==
    ExportMissing =>
        /\ \A i \in DOMAIN log : ~IsUse(log[i])
        /\ reads = << >>
        /\ received = << >>
        /\ ~PastBinding
        /\ HostReturned =>
              /\ returned = <<1>>
              /\ Cardinality(Positions(Released)) = 1
              /\ modstate = "unloaded"

\* C11 witness: only lib_global_counter, the last name resolved, was
\* missing; main returned 1 after the release
C11_Witness ==
    /\ exports = Symbols \ {"lib_global_counter"}
    /\ ptrs.lib_increment = "lib_increment_counter"
    /\ ptrs.counter_ptr = "NULL"
    /\ returned = <<1>>
    /\ log[Len(log) - 1] = Released

\* the names a diagnostic carries
NamesIn(msg) == { msg[k] : k \in DOMAIN msg }

\* C12 as claimed: the diagnostic of a missing export names an export that
\* failed to resolve.
C12_DiagnosticNamesSymbol ==
    (ExportMissing /\ HostReturned) =>
        \E k \in DOMAIN stderr : NamesIn(stderr[k]) \cap (Symbols \ exports) # {}

\* C12 as amended: when an export is missing the Host writes the one fixed
\* diagnostic "Failed to find symbols", which names the failing phase and
\* no symbol, whichever exports are missing.
C12_DiagnosticNamesPhaseOnly ==
    (ExportMissing /\ HostReturned) =>
        /\ stderr = << <<"Failed to find symbols">> >>
        /\ \A k \in DOMAIN stderr : NamesIn(stderr[k]) \cap Symbols = {}

\* C12 witness: lib_process_data alone was missing and the diagnostic is
\* the fixed text
C12_Witness ==
    /\ exports = Symbols \ {"lib_process_data"}
    /\ HostReturned
    /\ stderr = << <<"Failed to find symbols">> >>

LoadFailed == Positions(<<"loader", "dlopen failed">>) # {}

\* C13: when dlopen fails the Host writes "Failed to load library" with
\* dlerror()'s text, calls no dlsym, invokes no export, does not call
\* dlclose, and returns 1.
C13_LoadFailureAborts ==
    LoadFailed =>
        /\ stderr = << <<"Failed to load library: %s", "dlerror()">> >>
        /\ log = << <<"loader", "dlopen failed">> >>
        /\ reads = << >>
        /\ received = << >>
        /\ modstate = "unloaded"
        /\ returned = <<1>>
        /\ hpc = "exit"

\* C13 witness: a run whose dlopen failed
C13_Witness ==
    /\ LoadFailed
    /\ handle = "NULL"
    /\ returned = <<1>>

\* C14: main returns 1 exactly when dlopen failed or a required symbol was
\* missing, and 0 in every other run, whatever ret holds.
C14_ExitCode ==
    HostReturned =>
        returned = << IF LoadFailed \/ ExportMissing THEN 1 ELSE 0 >>

\* C14 witness: the full run returned 0 although ret held 174
C14_Witness ==
    /\ returned = <<0>>
    /\ ret = 174
    /\ exports = Symbols

\* the events of the log that are not module hooks
IsHostEvent(ev) == ev[1] # "hook"
HostEvents == SelectSeq(log, IsHostEvent)

\* the order of the events of a successful run
SuccessfulOrder ==
    << <<"loader", "dlopen">>,
       <<"dlsym", "lib_initialize">>,
       <<"dlsym", "lib_process_data">>,
       <<"dlsym", "lib_execute_callback">>,
       <<"dlsym", "lib_increment_counter">>,
       <<"dlsym", "lib_global_counter">>,
       <<"call", "lib_initialize">>,
       <<"call", "lib_process_data">>,
       <<"call", "lib_execute_callback">>,
       <<"deref", "lib_global_counter">>,
       <<"call", "lib_increment_counter">>,
       <<"deref", "lib_global_counter">>,
       <<"loader", "dlclose">> >>

\* C15: in a run where the load and all five resolutions succeed, the
\* events so far are always an initial part of: load, the five
\* resolutions, lib_initialize, lib_process_data, lib_execute_callback,
\* counter read, lib_increment_counter, counter read, release; and they are
\* all of it when main returns. So each happens once and every resolution
\* precedes every invocation.
C15_EventOrder ==
    (LoadSucceeded /\ exports = Symbols) =>
        /\ Len(HostEvents) <= Len(SuccessfulOrder)
        /\ HostEvents = SubSeq(SuccessfulOrder, 1, Len(HostEvents))
        /\ HostReturned => HostEvents = SuccessfulOrder

\* C15 witness: the successful run has returned
C15_Witness ==
    /\ exports = Symbols
    /\ returned = <<0>>
    /\ Len(HostEvents) = 13

LoadHook == <<"hook", "lib_constructor">>
UnloadHook == <<"hook", "lib_destructor">>

\* C16: the load hook runs once per load, inside dlopen and so before any
\* export is invoked; the unload hook runs once per release, inside
\* dlclose and so after the last invocation and after the load hook;
\* neither runs when dlopen fails.
C16_HooksOncePerCycle ==
    /\ Cardinality(Positions(LoadHook)) = Cardinality(Positions(<<"loader", "dlopen">>))
    /\ Cardinality(Positions(UnloadHook)) = Cardinality(Positions(Released))
    /\ Cardinality(Positions(LoadHook)) <= 1
    /\ \A i \in Positions(LoadHook) : i > 1 /\ log[i - 1] = <<"loader", "dlopen">>
    /\ \A i \in Positions(UnloadHook) : i > 1 /\ log[i - 1] = Released
    /\ \A i \in DOMAIN log : IsUse(log[i]) =>
          /\ \E h \in Positions(LoadHook) : h < i
          /\ \A u \in Positions(UnloadHook) : i < u
    /\ \A u \in Positions(UnloadHook) : \E h \in Positions(LoadHook) : h < u
    /\ LoadFailed => (Positions(LoadHook) = {} /\ Positions(UnloadHook) = {})
    /\ (HostReturned /\ LoadSucceeded) => Cardinality(Positions(UnloadHook)) = 1

\* C16 witness: the successful run has returned; the load hook came second
\* in the log and the unload hook last, after six uses of the exports
C16_Witness ==
    /\ returned = <<0>>
    /\ log[2] = LoadHook
    /\ log[Len(log)] = UnloadHook
    /\ Cardinality({ i \in DOMAIN log : IsUse(log[i]) }) = 6

\* "YRARBIL CIMANYD OLLEH"
ReversedUpper ==
    <<89, 82, 65, 82, 66, 73, 76, 32, 67, 73, 77, 65, 78, 89, 68, 32,
      79, 76, 76, 69, 72>>

\* C17: in the Host run with every symbol resolved, lib_process_data on
\* "Hello Dynamic Library" with capacity 256 returns 21 and leaves
\* "YRARBIL CIMANYD OLLEH"; lib_execute_callback(my_callback, 7) hands 87
\* to my_callback and returns 174; the counter reads 0 before and 1 after
\* the one lib_increment_counter call.
C17_EndToEnd ==
    /\ hpc = "print_output" => (ret = 21 /\ StringAt(output) = ReversedUpper)
    /\ hpc \in {"call_callback", "read_counter", "call_increment",
                 "read_again", "dlclose"} => printed = ReversedUpper
    /\ hpc = "read_counter" => (received = <<87>> /\ ret = 174)
    /\ hpc = "call_increment" => reads = <<0>>
    /\ hpc = "dlclose" => reads = <<0, 1>>
    /\ returned = <<0>> =>
          /\ printed = ReversedUpper
          /\ received = <<87>>
          /\ ret = 174
          /\ reads = <<0, 1>>

\* C17 witness: the full run has returned with these values
C17_Witness ==
    /\ returned = <<0>>
    /\ printed = ReversedUpper
    /\ Len(printed) = 21
    /\ received = <<87>>
    /\ ret = 174
    /\ reads = <<0, 1>>

\* a step that is one lib_increment_counter call
IncrementStep == LastIs("lib_increment_counter")' /\ nIncr' = nIncr + 1

\* C18: the counter is a 32-bit signed value that wraps: a
\* lib_increment_counter call at 2^31 - 1 leaves -2^31, and every call
\* takes the counter to its successor modulo 2^32 in the signed range (so n
\* calls from 0 leave n reduced that way).
C18_CounterWraps ==
    [][ IncrementStep =>
          /\ lib_global_counter' =
                (IF lib_global_counter = INT_MAX THEN INT_MIN
                 ELSE lib_global_counter + 1)
          /\ lib_global_counter' >= INT_MIN
          /\ lib_global_counter' <= INT_MAX ]_vars

\* C18 witness: the counter was set to 2^31 - 2 through its handle and two
\* calls later holds -2^31
C18_Witness ==
    /\ LastIs("lib_increment_counter")
    /\ extWrite
    /\ nIncr = 2
    /\ lib_global_counter = INT_MIN

C19_State == LastIs("lib_initialize") => last.res.ret = 0

C19_Step ==
    /\ LastIs("lib_initialize")' =>
          /\ lib_global_counter' = lib_global_counter
          /\ modstate' = modstate
          /\ nIncr' = nIncr
    /\ modstate = "resident" => ENABLED Initialize

\* C19: lib_initialize returns 0 on every call, can be called whenever the
\* module is resident, and leaves the counter and the module as they were;
\* so the counter still counts the lib_increment_counter calls however many
\* lib_initialize calls come between them.
C19_InitializeIsInert == []C19_State /\ [][C19_Step]_vars

\* C19 witness: lib_initialize returned 0 with the counter already raised
\* and written
C19_Witness ==
    /\ LastIs("lib_initialize")
    /\ last.res.ret = 0
    /\ lib_global_counter = INT_MAX
    /\ nIncr = 1

(***************************************************************************)
(* Properties of concurrent callers (ThreadSpec).                          *)
(***************************************************************************)
AllIdle == \A t \in Threads : tpc[t] = "idle"

\* each of the two threads has called lib_increment_counter once and
\* returned
EachCalledOnce == AllIdle /\ \A t \in Threads : tcalls[t] = 1

\* C20: lib_increment_counter is an unguarded read-modify-write. When two
\* threads have each completed one call on a freshly loaded module the
\* counter is 1 or 2, and it is 1 (one update lost) exactly when both
\* loaded the same value; the counter never exceeds the number of completed
\* calls, and equals it as long as only one thread has called.
C20_LostUpdate ==
    /\ EachCalledOnce =>
          /\ lib_global_counter \in {1, 2}
          /\ lib_global_counter = 1 <=> treg[1] = treg[2]
    /\ lib_global_counter <= tcalls[1] + tcalls[2]
    /\ \A t \in Threads :
          (AllIdle /\ \A u \in Threads \ {t} : tcalls[u] = 0) =>
              lib_global_counter = tcalls[t]

\* C20 witness: both calls completed and the counter rose by only 1
C20_Witness ==
    /\ EachCalledOnce
    /\ lib_global_counter = 1
    /\ modstate = "resident"

(***************************************************************************)
(* The counter as one cell shared by the caller and the module (Spec).     *)
(***************************************************************************)
C21_Step ==
    /\ LastIs("write")' => lib_global_counter' = last'.args[1]
    /\ (LastIs("write") /\ IncrementStep) =>
          lib_global_counter' = Add32(last.args[1], 1)
    /\ LastIs("read")' =>
          /\ last'.res.ret = lib_global_counter
          /\ lib_global_counter' = lib_global_counter
    /\ (LastIs("read") /\ IncrementStep) =>
          lib_global_counter' = Add32(last.res.ret, 1)

\* C21: the caller's handle and the module's counter are one cell: a store
\* through the handle sets the counter, the lib_increment_counter call that
\* follows it leaves the stored value plus one, a load through the handle
\* gives the counter, and the call that follows a load leaves the loaded
\* value plus one (so a load, a call and a load give v and v + 1).
C21_SameCell == [][C21_Step]_vars

\* C21 witness: 5 was stored through the handle, lib_increment_counter was
\* called once, and the load that followed gave 6
C21_Witness ==
    /\ LastIs("read")
    /\ last.res.ret = 6
    /\ lib_global_counter = 6
    /\ extWrite
    /\ nIncr = 1

(***************************************************************************)
(* More properties of lib_process_data (ProcSpec).                         *)
(***************************************************************************)
\* C22: when lib_process_data fails, with -1 or with -2, it has stored
\* nothing: the memory at output is byte for byte what it was before the
\* call, with no part of a result and no terminator in it.
C22_FailureWritesNothing ==
    (ppc = "done" /\ pres.ret < 0) =>
        /\ pres.ret \in {-1, -2}
        /\ pres.written = {}
        /\ pres.out = pout

\* C22 witness: a three-byte input was refused for a two-byte buffer, which
\* a truncating implementation would have filled
C22_Witness ==
    /\ ProcBuffersPresent
    /\ psize = 2
    /\ CLen(pin) = 3
    /\ pres.ret = -2
    /\ pres.out = FreshMemory

C23_State ==
    (ProcBuffersPresent /\ pres.ret >= 0) =>
        LET n == CLen(pin)
        IN /\ pres.written = 0..n
           /\ pres.out[n + 1] = 0
           /\ Len(pres.out) = Len(pout)
           /\ \A k \in (n + 1)..(MemSize - 1) : pres.out[k + 1] = pout[k + 1]
           /\ pres.reads = 0..n

\* C23: on success lib_process_data stores to output[0..len(s)] and to
\* nothing else: output[len(s)] is the terminator, every byte at a higher
\* index is what it was before the call, and the input, which the call only
\* loads from, is unchanged.
C23_SuccessFrame == []C23_State /\ [][pin' = pin]_vars

\* C23 witness: a one-byte input in a buffer of capacity 4: the terminator
\* is at index 1 and indices 2 and 3 hold what they held
C23_Witness ==
    /\ ProcBuffersPresent
    /\ pin = <<97, 0>>
    /\ psize = 4
    /\ pres.ret = 1
    /\ pres.out = <<65, 0, Poison(2), Poison(3)>>

\* the bytes of a C string before its terminator
Chars(s) == SubSeq(s, 1, CLen(s))

IsLower(c) == c \in 97..122

\* C24: lib_process_data applied to its own result (separate buffers, the
\* same capacity) succeeds with the same length and gives the original
\* string with a-z replaced by A-Z; so it gives back a string that has no
\* lowercase letter, and neither result holds a byte in a-z.
C24_TwiceUppercases ==
    ppc = "twice" =>
        LET n == CLen(pin)
        IN /\ pres.ret = n
           /\ pres2.ret = n
           /\ StringAt(pres2.out) = [i \in 1..n |-> UpperOf(pin[i])]
           /\ (\A i \in 1..n : ~IsLower(pin[i])) =>
                 StringAt(pres2.out) = Chars(pin)
           /\ \A i \in 1..n : ~IsLower(pres.out[i]) /\ ~IsLower(pres2.out[i])

\* C24 witness: "a{z" became "Z{A" and then "A{Z"
C24_Witness ==
    /\ ppc = "twice"
    /\ pin = <<97, 123, 122, 0>>
    /\ StringAt(pres.out) = <<90, 123, 65>>
    /\ StringAt(pres2.out) = <<65, 123, 90>>
    /\ pres2.ret = 3

(***************************************************************************)
(* The returned int over the range of size_t (WideSpec).                   *)
(***************************************************************************)
\* the call passed both checks and returned at line 43
WideSuccess == wpc = "done" /\ wres.line = 43

\* C25: whatever the length and the capacity, a successful call returns a
\* non-negative int equal to len(input), never -1, -2 or another negative
\* value, and a failed call returns -1 or -2.
C25_ReturnSeparatesSuccess ==
    /\ WideSuccess =>
          /\ wres.ret >= 0
          /\ SizeOf(wres.ret \div Half, wres.ret % Half) = wlen
    /\ (wpc = "done" /\ ~WideSuccess) => wres.ret \in {-1, -2}

(***************************************************************************)
(* The Host's read of its output buffer (HostSpec).                        *)
(***************************************************************************)
\* main has yet to run line 54
BeforeProcess ==
    hpc \in {"dlopen", "dlsym_init", "dlsym_process", "dlsym_callback",
             "dlsym_increment", "dlsym_counter", "check", "call_init",
             "call_process"}

\* C26: the Host is about to print output only when lib_process_data has
\* returned 21 (the input has 21 bytes, the capacity is 256: the call
\* cannot fail) and left a terminator at index 21, every byte up to it
\* stored by the module; nothing is printed before the call, and what is
\* printed is the 21 bytes the module stored.
C26_OutputReadAfterSuccess ==
    /\ Len(HostInput) - 1 < OutputSize
    /\ BeforeProcess => printed = << >>
    /\ hpc = "print_output" =>
          /\ ret = Len(HostInput) - 1
          /\ Positions(<<"call", "lib_process_data">>) # {}
          /\ output[ret + 1] = 0
          /\ \A k \in 1..(ret + 1) : output[k] # Indeterminate
          /\ strlen(output) = ret
    /\ printed # << >> =>
          /\ Len(printed) = Len(HostInput) - 1
          /\ \A k \in DOMAIN printed : printed[k] = output[k]
          /\ \A k \in DOMAIN printed : printed[k] # Indeterminate

\* C26 witness: the string was printed: 21 bytes, the terminator at index
\* 21, and the bytes after it never stored to and never read
C26_Witness ==
    /\ hpc = "call_callback"
    /\ Len(printed) = 21
    /\ output[22] = 0
    /\ output[23] = Indeterminate
    /\ ret = 21

(***************************************************************************)
(* multiply_add_asm (MulAddSpec).                                          *)
(***************************************************************************)
\* the routine has returned to its caller
AsmReturned == result # << >>

\* C27: multiply_add_asm(a, b, c) returns a * b + c modulo 2^64 for all a,
\* b and c, and 40 for (5, 6, 10).
C27_MultiplyAdd ==
    AsmReturned =>
        /\ result[1] = QAdd(Mulq(args.a, args.b).rax, args.c)
        /\ args = [a |-> Quad(5), b |-> Quad(6), c |-> Quad(10)] =>
              result[1] = Quad(40)

(***************************************************************************)
(* fibonacci_asm (FibSpec).                                                *)
(***************************************************************************)
\* the Fibonacci numbers
RECURSIVE Fibonacci(_)
Fibonacci(n) == IF n <= 1 THEN n ELSE Fibonacci(n - 1) + Fibonacci(n - 2)

\* the activation that is running
Activation == Top(frames)

C28_State ==
    /\ ip # "main" => regs.rsp = -8 * (Len(stack) - 1)
    /\ ip = "L37" =>
          /\ regs.rax = Fibonacci(Activation.n)
          /\ regs.rsp = Activation.rsp
          /\ regs.rbp = Activation.rbp
          /\ regs.rbx = Activation.rbx
          /\ regs.r12 = Activation.r12
          /\ Len(stack) = Activation.depth
          /\ Top(stack) = Activation.ret
    /\ ip = "L27" =>
          /\ regs.rbx = Activation.n
          /\ regs.r12 = Fibonacci(Activation.n - 1)
          /\ regs.rax = Fibonacci(Activation.n - 2)
    /\ AsmReturned =>
          /\ result[1] = Fibonacci(args.n)
          /\ frames = << >>
          /\ stack = << >>
          /\ regs.rbx = args.rbx
          /\ regs.r12 = args.r12

\* C28: for every n from 0 to the bound fibonacci_asm(n) returns F(n);
\* every activation reaches its ret, where RAX holds F of its argument and
\* RSP, RBP, RBX and R12 hold what they held at its entry, the return
\* address on top of the stack; before the final addq R12 still holds
\* fib(n-1) and RAX holds fib(n-2); and the outermost call returns.
C28_Fibonacci == []C28_State /\ <>(AsmReturned /\ frames = << >>)

\* C28 witness: fibonacci_asm(6) has returned 8 to main
C28_Witness ==
    /\ AsmReturned
    /\ args.n = 6
    /\ result = <<8>>
    /\ regs.r12 = args.r12
    /\ ip = "main"

(***************************************************************************)
(* array_search_asm (SearchSpec).                                          *)
(***************************************************************************)
\* the indices below count whose element equals the target
Matches == { i \in 0..(args.count - 1) : mem.arr[i + 1] = args.target }

\* the least of a non-empty set of indices
Least(S) == CHOOSE i \in S : \A j \in S : i <= j

\* C29: array_search_asm returns the index of the first element of
\* arr[0..count-1] equal to target and -1 when there is none, count = 0
\* included; at no moment has it loaded an element at an index >= count,
\* and a successful search has loaded exactly the elements up to the one
\* it found.
C29_FirstIndex ==
    /\ \A i \in loads : i < args.count
    /\ AsmReturned =>
          /\ result[1] = (IF Matches = {} THEN -1 ELSE Least(Matches))
          /\ loads = (IF Matches = {} THEN 0..(args.count - 1)
                      ELSE 0..Least(Matches))

\* C29 witness: the target lies in the array only past count, and the
\* search of the first two elements returned -1 without loading it
C29_Witness ==
    /\ AsmReturned
    /\ mem.arr = <<5, 5, 17>>
    /\ args = [count |-> 2, target |-> 17]
    /\ result = <<-1>>
    /\ loads = {0, 1}

(***************************************************************************)
(* memcmp_asm (MemcmpSpec).                                                *)
(***************************************************************************)
\* the positions below num where the two buffers differ
Differing == { i \in 0..(args.num - 1) : mem.p1[i + 1] # mem.p2[i + 1] }

\* C30: memcmp_asm returns 0 when the first num bytes are equal, -1 when
\* at the first differing position the byte of ptr1 is below the byte of
\* ptr2 as unsigned values, and 1 otherwise; with num = 0 it compares no
\* byte and returns 0, whatever the flags were at entry.
C30_ThreeWay ==
    AsmReturned =>
        /\ result[1] =
              (IF Differing = {} THEN 0
               ELSE IF mem.p1[Least(Differing) + 1] < mem.p2[Least(Differing) + 1]
                    THEN -1 ELSE 1)
        /\ args.num = 0 => (loads = {} /\ result[1] = 0)

====
